---- MODULE Spec2Model ----
(***************************************************************************)
(* A model of the django-mega-tutorial link shortener: the Link and Click  *)
(* tables with their constraints, the link create/update/delete views and  *)
(* LinkForm, the public redirect view, and the three Celery tasks          *)
(* (send_welcome_email, send_password_reset_email, record_link_click)      *)
(* under Celery's autoretry policy.                                        *)
(*                                                                         *)
(* Every database query is one atomic step; the Python code between two    *)
(* queries is local to its request or worker and is folded into the step   *)
(* of the query that follows it.                                           *)
(***************************************************************************)
EXTENDS Integers, Sequences, FiniteSets, TLC

VARIABLES
    users,          \* ids of the rows of the user table
    nextUserId,     \* the user table's auto-increment counter
    links,          \* rows of links_link: [id, user, slug, gen]
    nextLinkId,     \* the link table's auto-increment counter
    deletedLinks,   \* history: ids of links that were ever deleted
    clicks,         \* rows of links_click: [id, link, referrer, user_agent, ip_address]
    req,            \* the web requests of the link create / update views
    response,       \* the response most recently returned by those views
    eager,          \* settings.CELERY_TASK_ALWAYS_EAGER (with EAGER_PROPAGATES)
    tasks,          \* the Celery task messages and their execution state
    outbox          \* number of emails handed to the mail transport

vars == <<users, nextUserId, links, nextLinkId, deletedLinks, clicks,
          req, response, eager, tasks, outbox>>

taskVars == <<eager, tasks, outbox>>

-----------------------------------------------------------------------------
(* Bounds of the model *)

MaxReqs == 2        \* concurrent link-form requests
MaxLinks == 2       \* a create request starts only while nextLinkId <= MaxLinks
NSample == 2        \* number of alphabet symbols the random source is sampled at
MaxTasks == 2       \* task messages ever enqueued
MaxUsers == 3       \* user rows ever created (registration stops there)
MaxBackoffRetries == 11     \* retry counts the countdown is computed for
MaxRandom == 700    \* raw values of the random source behind randrange

(* Program constants *)

SLUG_LENGTH == 10
SLUG_MAX_LENGTH == 32
GEN_ATTEMPTS == 10
CELERY_TASK_MAX_RETRIES == 3
RETRY_BACKOFF == 1          \* retry_backoff=True: the factor int(True)
RETRY_BACKOFF_MAX == 600    \* retry_backoff_max

-----------------------------------------------------------------------------
(* Slugs are sequences of one-character strings. *)

SLUG_ALPHABET ==
    << "a", "b", "c", "d", "e", "f", "g", "h", "i", "j", "k", "l", "m",
       "n", "o", "p", "q", "r", "s", "t", "u", "v", "w", "x", "y", "z",
       "0", "1", "2", "3", "4", "5", "6", "7", "8", "9" >>

AlphabetSet == {SLUG_ALPHABET[i] : i \in 1..Len(SLUG_ALPHABET)}

UpperCase == {"A", "M", "Z"}

\* secrets.choice draws an index into SLUG_ALPHABET; the model samples the
\* draws at NSample indices spread over the alphabet ("a" ... "9").
SampleIdx(k) == 1 + ((k * (Len(SLUG_ALPHABET) - 1)) \div (NSample - 1))

\* The outcomes of the random source for one call of generate_slug: the
\* i-th draw of stream k is sample (k + i) mod NSample.
RandomStreams ==
    { [i \in 1..SLUG_MAX_LENGTH |-> SampleIdx((k + i) % NSample)] : k \in 0..(NSample - 1) }

generate_slug_short(length, choice) ==
    [i \in 1..(length - 1) |-> SLUG_ALPHABET[choice[i]]]

\* generate_slug: "".join(secrets.choice(SLUG_ALPHABET) for _ in range(length))
generate_slug(length, choice) ==
    [i \in 1..length |-> SLUG_ALPHABET[choice[i]]]

\* django.forms.SlugField of the ModelForm: max_length and validate_slug
\* ([-a-zA-Z0-9_]+), run by the form field before clean_slug.
FormFieldValid(slug) ==
    /\ Len(slug) <= SLUG_MAX_LENGTH
    /\ \A i \in 1..Len(slug) : slug[i] \in AlphabetSet \cup UpperCase \cup {"_", "-"}

\* Link.slug validators: RegexValidator ^[a-z0-9_-]+$ and max_length=32, run
\* by the ModelForm's _post_clean (Model.full_clean), never by Model.save.
ModelFieldValid(slug) ==
    /\ Len(slug) <= SLUG_MAX_LENGTH
    /\ \A i \in 1..Len(slug) : slug[i] \in AlphabetSet \cup {"_", "-"}

SlugExists_never(rows, user, slug, pk) == FALSE

SlugExists_any_pk(rows, user, slug, pk) ==
    \E l \in rows : l.user = user /\ l.slug = slug

\* Link.objects.filter(user=user, slug=slug) [.exclude(pk=pk)] .exists()
SlugExists(rows, user, slug, pk) ==
    \E l \in rows : l.user = user /\ l.slug = slug /\ l.id # pk

UniqueViolation_none(rows, user, slug, pk) == FALSE

UniqueViolation_global(rows, user, slug, pk) ==
    \E l \in rows : l.slug = slug /\ l.id # pk

\* UniqueConstraint(fields=["user", "slug"]): would a row (pk, user, slug)
\* collide with another row of the table?
UniqueViolation(rows, user, slug, pk) ==
    \E l \in rows : l.user = user /\ l.slug = slug /\ l.id # pk

-----------------------------------------------------------------------------
(* Inputs of the link form *)

NoPk == 0

\* The accounts that exist from the start (alice and bob of the test suites).
InitialUsers == {1, 2}

TooLongSlug == [i \in 1..(SLUG_MAX_LENGTH + 1) |-> "a"]

RequestedSlugs ==
    { <<>>, <<"m", "y">>, <<"M", "y">>, TooLongSlug }

IdleReq ==
    [pc |-> "idle", op |-> "none", user |-> 0, pk |-> NoPk, slug |-> <<>>,
     auto |-> FALSE, tries |-> 0]

NoResponse == [op |-> "none", user |-> 0, slug |-> <<>>, result |-> "none"]

\* The response returned by request r in this step.
Respond(r, result) ==
    response' = [op |-> req[r].op, user |-> req[r].user, slug |-> req[r].slug,
                 result |-> result]

Held(rows, user, slug) == \E l \in rows : l.user = user /\ l.slug = slug

-----------------------------------------------------------------------------
(* LinkForm validation: field clean, clean_slug, model validators.         *)
(* The result is "ok" or the error the form reports.                       *)

clean_slug_nocheck(rows, user, slug, pk) == "ok"

\* LinkForm.clean_slug
clean_slug(rows, user, slug, pk) ==
    IF slug = <<>> THEN "ok"
    ELSE IF SlugExists(rows, user, slug, pk) THEN "SlugAlreadyTaken"
    ELSE "ok"

\* ModelForm.full_clean: the form field's own checks, then clean_slug, then
\* the model field's validators (_post_clean); a blank slug skips validators.
FormClean(rows, user, slug, pk) ==
    IF slug # <<>> /\ ~FormFieldValid(slug) THEN "InvalidSlugFormat"
    ELSE IF clean_slug(rows, user, slug, pk) # "ok" THEN clean_slug(rows, user, slug, pk)
    ELSE IF slug # <<>> /\ ~ModelFieldValid(slug) THEN "InvalidSlugFormat"
    ELSE "ok"

save_generates_always(slug) == TRUE

save_generates_never(slug) == FALSE

\* Link.save: "if not self.slug" -- a slug is generated only for an empty one.
save_generates(slug) == slug = <<>>

\* form.is_valid() for the form of request r submitted by u with slug s on
\* instance pk: an invalid form is reported to the caller; a valid one goes
\* on to form.save() -> Link.save(), which generates a slug when it is empty.
SubmitForm(r, op, u, pk, s) ==
    LET res == FormClean(links, u, s, pk) IN
    /\ IF res # "ok"
       THEN /\ response' = [op |-> op, user |-> u, slug |-> s, result |-> res]
            /\ UNCHANGED req
       ELSE /\ req' = [req EXCEPT ![r] =
                         [pc |-> IF save_generates(s) THEN "gen" ELSE "write", op |-> op,
                          user |-> u, pk |-> pk, slug |-> s, auto |-> save_generates(s),
                          tries |-> 0]]
            /\ response' = NoResponse

\* LinkCreateView.post by a logged-in user: form_valid sets instance.user.
CreateSubmit(r, u, s) ==
    /\ req[r].pc = "idle"
    /\ u \in users
    /\ nextLinkId + Cardinality({q \in 1..MaxReqs : req[q].op = "create"}) <= MaxLinks
    /\ SubmitForm(r, "create", u, NoPk, s)
    /\ UNCHANGED <<users, nextUserId, links, nextLinkId, deletedLinks, clicks, taskVars>>

\* Link.objects.create(user=u, slug=s, ...) and Link(...).save() called
\* directly: Link.save generates a slug for an empty one and writes the
\* row; Model.save runs no validator, and the default SQLite backend does
\* not enforce the length of a varchar column.
ModelSave(r, u, s) ==
    /\ req[r].pc = "idle"
    /\ u \in users
    /\ nextLinkId + Cardinality({q \in 1..MaxReqs : req[q].op = "create"}) <= MaxLinks
    /\ req' = [req EXCEPT ![r] =
                 [pc |-> IF save_generates(s) THEN "gen" ELSE "write", op |-> "create",
                  user |-> u, pk |-> NoPk, slug |-> s, auto |-> save_generates(s),
                  tries |-> 0]]
    /\ response' = NoResponse
    /\ UNCHANGED <<users, nextUserId, links, nextLinkId, deletedLinks, clicks, taskVars>>

\* LinkUpdateView.post: get_object through the owner-filtered queryset
\* (Link.objects.filter(user=request.user)), 404 when it has no such row.
UpdateSubmit(r, u, pk, s) ==
    /\ req[r].pc = "idle"
    /\ u \in users
    /\ pk \in 1..(nextLinkId - 1)
    /\ IF \E l \in links : l.id = pk /\ l.user = u
       THEN SubmitForm(r, "update", u, pk, s)
       ELSE /\ response' = [op |-> "update", user |-> u, slug |-> s, result |-> "404"]
            /\ UNCHANGED req
    /\ UNCHANGED <<users, nextUserId, links, nextLinkId, deletedLinks, clicks, taskVars>>

\* One iteration of Link._generate_unique_slug: draw a candidate, query for it.
\* After GEN_ATTEMPTS colliding candidates the method raises RuntimeError.
GenerateAttempt(r, choice) ==
    /\ req[r].pc = "gen"
    /\ LET candidate == generate_slug(SLUG_LENGTH, choice) IN
       IF ~SlugExists(links, req[r].user, candidate, NoPk)
       THEN /\ req' = [req EXCEPT ![r] =
                         [@ EXCEPT !.slug = candidate, !.tries = 0, !.pc = "write"]]
            /\ response' = NoResponse
       ELSE IF req[r].tries + 1 < GEN_ATTEMPTS
       THEN /\ req' = [req EXCEPT ![r] = [@ EXCEPT !.tries = @ + 1]]
            /\ response' = NoResponse
       ELSE /\ req' = [req EXCEPT ![r] = IdleReq]
            /\ Respond(r, "RuntimeError")
    /\ UNCHANGED <<users, nextUserId, links, nextLinkId, deletedLinks, clicks, taskVars>>

\* super().save() of a new Link: INSERT under the unique constraint.
InsertLink(r) ==
    /\ req[r].pc = "write"
    /\ req[r].pk = NoPk
    /\ IF UniqueViolation(links, req[r].user, req[r].slug, NoPk)
       THEN /\ Respond(r, "IntegrityError")
            /\ UNCHANGED <<links, nextLinkId>>
       ELSE /\ links' = links \cup {[id |-> nextLinkId, user |-> req[r].user,
                                     slug |-> req[r].slug, gen |-> req[r].auto]}
            /\ nextLinkId' = nextLinkId + 1
            /\ Respond(r, "created")
    /\ req' = [req EXCEPT ![r] = IdleReq]
    /\ UNCHANGED <<users, nextUserId, deletedLinks, clicks, taskVars>>

\* super().save() of a loaded Link: UPDATE by primary key; when no row has
\* that key any more (deleted meanwhile) Model.save falls back to an INSERT
\* with the same key. Both run under the unique constraint.
WriteLink(r) ==
    /\ req[r].pc = "write"
    /\ req[r].pk # NoPk
    /\ IF UniqueViolation(links, req[r].user, req[r].slug, req[r].pk)
       THEN /\ Respond(r, "IntegrityError")
            /\ UNCHANGED links
       ELSE /\ links' = {l \in links : l.id # req[r].pk}
                        \cup {[id |-> req[r].pk, user |-> req[r].user,
                               slug |-> req[r].slug, gen |-> req[r].auto]}
            /\ Respond(r, "updated")
    /\ req' = [req EXCEPT ![r] = IdleReq]
    /\ UNCHANGED <<users, nextUserId, nextLinkId, deletedLinks, clicks, taskVars>>

\* LinkDeleteView: get_object through the owner-filtered queryset, delete;
\* Click.link is on_delete=CASCADE.
DeleteLink(u, pk) ==
    /\ u \in users
    /\ \E l \in links : l.id = pk /\ l.user = u
    /\ links' = {l \in links : l.id # pk}
    /\ clicks' = {c \in clicks : c.link # pk}
    /\ deletedLinks' = deletedLinks \cup {pk}
    /\ response' = [op |-> "delete", user |-> u, slug |-> <<>>, result |-> "deleted"]
    /\ UNCHANGED <<users, nextUserId, nextLinkId, req, taskVars>>

owner_queryset_all(rows, user) == rows

\* get_queryset of LinkListView, LinkDetailView and LinkDeleteView:
\* Link.objects.filter(user=self.request.user)
owner_queryset(rows, user) == {l \in rows : l.user = user}

\* LinkListView.get by a logged-in user: the page shows the queryset.
ListLinks(u) ==
    /\ u \in users
    /\ response' = [op |-> "list", user |-> u, pk |-> NoPk, result |-> "200",
                    rows |-> owner_queryset(links, u)]
    /\ UNCHANGED <<users, nextUserId, links, nextLinkId, deletedLinks, clicks, req,
                   taskVars>>

\* LinkDetailView.get: get_object on the queryset, 404 when it has no row pk.
DetailLink(u, pk) ==
    /\ u \in users
    /\ response' = IF \E l \in owner_queryset(links, u) : l.id = pk
                   THEN [op |-> "detail", user |-> u, pk |-> pk, result |-> "200",
                         rows |-> {l \in owner_queryset(links, u) : l.id = pk}]
                   ELSE [op |-> "detail", user |-> u, pk |-> pk, result |-> "404",
                         rows |-> {}]
    /\ UNCHANGED <<users, nextUserId, links, nextLinkId, deletedLinks, clicks, req,
                   taskVars>>

\* LinkDeleteView.post: get_object on the queryset (404 when it has no row
\* pk), then delete; Click.link is on_delete=CASCADE.
DeleteRequest(u, pk) ==
    /\ u \in users
    /\ IF \E l \in owner_queryset(links, u) : l.id = pk
       THEN /\ links' = {l \in links : l.id # pk}
            /\ clicks' = {c \in clicks : c.link # pk}
            /\ deletedLinks' = deletedLinks \cup {pk}
            /\ response' = [op |-> "delete", user |-> u, pk |-> pk, result |-> "deleted",
                            rows |-> {}]
       ELSE /\ response' = [op |-> "delete", user |-> u, pk |-> pk, result |-> "404",
                            rows |-> {}]
            /\ UNCHANGED <<links, clicks, deletedLinks>>
    /\ UNCHANGED <<users, nextUserId, nextLinkId, req, taskVars>>

\* Two accounts, each with a link of its own under the same slug.
InitOwners ==
    /\ users = InitialUsers
    /\ nextUserId = 3
    /\ links = {[id |-> 1, user |-> 1, slug |-> <<"m", "y">>, gen |-> FALSE],
                [id |-> 2, user |-> 2, slug |-> <<"m", "y">>, gen |-> FALSE]}
    /\ nextLinkId = 3
    /\ deletedLinks = {}
    /\ clicks = {}
    /\ req = [r \in 1..MaxReqs |-> IdleReq]
    /\ response = NoResponse
    /\ eager = FALSE
    /\ tasks = <<>>
    /\ outbox = 0

NextOwners ==
    \/ \E u \in users : ListLinks(u)
    \/ \E u \in users, pk \in 1..(nextLinkId - 1) : DetailLink(u, pk)
    \/ \E r \in 1..MaxReqs, u \in users, pk \in 1..(nextLinkId - 1), s \in RequestedSlugs :
          UpdateSubmit(r, u, pk, s)
    \/ \E r \in 1..MaxReqs, choice \in RandomStreams : GenerateAttempt(r, choice)
    \/ \E r \in 1..MaxReqs : WriteLink(r)
    \/ \E u \in users, pk \in 1..(nextLinkId - 1) : DeleteRequest(u, pk)

SpecOwners == InitOwners /\ [][NextOwners]_vars

-----------------------------------------------------------------------------

InitLinks ==
    /\ users = InitialUsers
    /\ nextUserId = 3
    /\ links = {}
    /\ nextLinkId = 1
    /\ deletedLinks = {}
    /\ clicks = {}
    /\ req = [r \in 1..MaxReqs |-> IdleReq]
    /\ response = NoResponse
    /\ eager = FALSE
    /\ tasks = <<>>
    /\ outbox = 0

NextLinks ==
    \/ \E r \in 1..MaxReqs, u \in users, s \in RequestedSlugs : CreateSubmit(r, u, s)
    \/ \E r \in 1..MaxReqs, u \in users, pk \in 1..MaxLinks, s \in RequestedSlugs :
          UpdateSubmit(r, u, pk, s)
    \/ \E r \in 1..MaxReqs, choice \in RandomStreams : GenerateAttempt(r, choice)
    \/ \E r \in 1..MaxReqs : InsertLink(r)
    \/ \E r \in 1..MaxReqs : WriteLink(r)
    \/ \E u \in users, pk \in 1..(nextLinkId - 1) : DeleteLink(u, pk)

SpecLinks == InitLinks /\ [][NextLinks]_vars

\* Links created through the form and through direct calls of Link.save.
NextModelSave ==
    \/ \E r \in 1..MaxReqs, u \in users, s \in RequestedSlugs : CreateSubmit(r, u, s)
    \/ \E r \in 1..MaxReqs, u \in users, s \in RequestedSlugs : ModelSave(r, u, s)
    \/ \E r \in 1..MaxReqs, choice \in RandomStreams : GenerateAttempt(r, choice)
    \/ \E r \in 1..MaxReqs : InsertLink(r)
    \/ \E u \in users, pk \in 1..(nextLinkId - 1) : DeleteLink(u, pk)

SpecModelSave == InitLinks /\ [][NextModelSave]_vars

-----------------------------------------------------------------------------
(* The Celery tasks.                                                       *)
(* A task message is PENDING in the queue, RUNNING on a worker, and ends   *)
(* SUCCEEDED, FAILED_RETRYABLE (Celery's RETRY: a new message with         *)
(* retries + 1 is scheduled after the backoff) or FAILED_TERMINAL. Beside  *)
(* the message, a task record keeps what its executions did: execs counts  *)
(* the executions started, rows the Click rows committed, log is the level *)
(* of the last log record, missing tells whether the last execution found  *)
(* no row for its id, and caller is the outcome of .delay() at the caller. *)

None == "<None>"

NoPayload == [referrer |-> "", user_agent |-> "", ip_address |-> None]

EmailKinds == {"welcome", "reset"}

Terminal == {"SUCCEEDED", "FAILED_TERMINAL"}

\* Sample client addresses: IPv4, a compressed lower-case IPv6 literal, and
\* the same address written with leading zeros, upper case and a zero group.
IPv4Sample == "192.0.2.1"
IPv6Canonical == "2001:db8::1"
IPv6Expanded == "2001:0DB8:0:0::1"
IPv4Forwarded == "203.0.113.7"

RemoteAddrs == {IPv4Sample}
ForwardedFors == {None, <<IPv6Expanded, IPv4Sample>>}
Referrers == {"https://social.example.com"}
UserAgents == {"TestBrowser/1.0"}
RedirectSlugs == {<<"m", "y">>, <<"n", "o">>}

\* django.core.validators.validate_ipv46_address on the sample addresses
validate_ipv46_address(ip) ==
    ip \in {IPv4Sample, IPv4Forwarded, IPv6Canonical, IPv6Expanded}

get_client_ip_any_proxy(xff, remote, trust) ==
    LET ip == IF xff # None /\ xff # <<>> THEN Head(xff) ELSE remote
    IN  IF ip = None \/ ip = "" THEN None
        ELSE IF validate_ipv46_address(ip) THEN ip
        ELSE None

\* LinkPublicRedirectView._get_client_ip; xff is None for a request without
\* the header, <<>> for an empty header, and else the list of the
\* comma-separated, stripped entries of X-Forwarded-For; trust is
\* settings.TRUST_PROXY_HEADERS of the deployment that serves the request.
get_client_ip(xff, remote, trust) ==
    LET ip == IF xff # None /\ xff # <<>> /\ trust THEN Head(xff) ELSE remote
    IN  IF ip = None \/ ip = "" THEN None
        ELSE IF validate_ipv46_address(ip) THEN ip
        ELSE None

\* Click.ip_address = GenericIPAddressField(blank=True, null=True): on its
\* way to the database a value containing ":" goes through
\* clean_ipv6_address, which compresses and lower-cases an IPv6 literal;
\* None and IPv4 values are stored as given.
ip_address_prep(value) ==
    IF value = None THEN None
    ELSE IF value = IPv6Expanded THEN IPv6Canonical
    ELSE value

autoretry_requeue(retries) == "PENDING"

\* The executions a task is allowed: the first one and max_retries retries.
max_attempts == CELERY_TASK_MAX_RETRIES + 1

autoretry_one_less(retries) ==
    IF retries + 1 < CELERY_TASK_MAX_RETRIES THEN "FAILED_RETRYABLE" ELSE "FAILED_TERMINAL"

\* autoretry_for=(Exception,), retry_kwargs={"max_retries": ...}: Task.retry
\* schedules a retry while request.retries < max_retries and re-raises the
\* exception (the task fails for good) otherwise.
autoretry(retries) ==
    IF retries < CELERY_TASK_MAX_RETRIES THEN "FAILED_RETRYABLE" ELSE "FAILED_TERMINAL"

send_email_swallows(exists, sendRaises) ==
    IF ~exists THEN [raised |-> FALSE, sent |-> 0, log |-> "WARNING"]
    ELSE IF sendRaises THEN [raised |-> FALSE, sent |-> 0, log |-> "ERROR"]
    ELSE [raised |-> FALSE, sent |-> 1, log |-> "INFO"]

send_email_notfound_raises(exists, sendRaises) ==
    IF ~exists \/ sendRaises
    THEN [raised |-> TRUE, sent |-> 0, log |-> "ERROR"]
    ELSE [raised |-> FALSE, sent |-> 1, log |-> "INFO"]

\* The body of send_welcome_email for a user row that exists or not and a
\* send_templated_email call that raises or not: whether the body raises,
\* how many emails it sent, and the level it logged at.
send_welcome_email(exists, sendRaises) ==
    IF ~exists THEN [raised |-> FALSE, sent |-> 0, log |-> "WARNING"]
    ELSE IF sendRaises THEN [raised |-> TRUE, sent |-> 0, log |-> "ERROR"]
    ELSE [raised |-> FALSE, sent |-> 1, log |-> "INFO"]

\* The body of send_password_reset_email, likewise.
send_password_reset_email(exists, sendRaises) ==
    IF ~exists THEN [raised |-> FALSE, sent |-> 0, log |-> "WARNING"]
    ELSE IF sendRaises THEN [raised |-> TRUE, sent |-> 0, log |-> "ERROR"]
    ELSE [raised |-> FALSE, sent |-> 1, log |-> "INFO"]

delay_outcome_uncaught(kind, delayRaised) ==
    [st |-> "returned", raised |-> delayRaised,
     log |-> IF ~delayRaised THEN "INFO"
             ELSE IF kind = "click" THEN "WARNING" ELSE "ERROR"]

\* What the caller of .delay() does with its outcome: RegisterView.form_valid,
\* CustomPasswordResetForm.save and LinkPublicRedirectView.get all wrap the
\* call in try/except Exception, log, and go on to return their response.
delay_outcome(kind, delayRaised) ==
    [st |-> "returned", raised |-> FALSE,
     log |-> IF ~delayRaised THEN "INFO"
             ELSE IF kind = "click" THEN "WARNING" ELSE "ERROR"]

Waiting == [st |-> "waiting", raised |-> FALSE, log |-> "none"]

NewTask_inline(kind, arg, payload) ==
    [kind |-> kind, arg |-> arg, payload |-> payload, state |-> "RUNNING",
     pc |-> IF kind = "click" THEN "create" ELSE "body", retries |-> 0, execs |-> 1,
     rows |-> 0, log |-> "none", missing |-> FALSE, caller |-> Waiting]

\* .delay(): outside eager mode the message is published and the caller goes
\* on at once; in eager mode the task runs inside the call.
NewTask(kind, arg, payload) ==
    [kind |-> kind, arg |-> arg, payload |-> payload, state |-> "PENDING",
     pc |-> "", retries |-> 0, execs |-> 0, rows |-> 0, log |-> "none",
     missing |-> FALSE,
     caller |-> IF eager THEN Waiting ELSE delay_outcome(kind, FALSE)]

Enqueue(kind, arg, payload) == tasks' = Append(tasks, NewTask(kind, arg, payload))

TaskIds == 1..Len(tasks)

Redirected(u, s) == [op |-> "redirect", user |-> u, slug |-> s, result |-> "302"]

Redirect_by_slug(username, slug, referrer, user_agent, xff, remote, trust, brokerUp) ==
    /\ eager => brokerUp
    /\ IF ~(\E l \in links : l.slug = slug)
       THEN /\ response' = [op |-> "redirect", user |-> username, slug |-> slug,
                            result |-> "404"]
            /\ UNCHANGED tasks
       ELSE LET link == CHOOSE l \in links : l.slug = slug IN
            IF brokerUp
            THEN /\ Len(tasks) < MaxTasks
                 /\ Enqueue("click", link.id,
                            [referrer |-> referrer, user_agent |-> user_agent,
                             ip_address |-> get_client_ip(xff, remote, trust)])
                 /\ response' = IF eager THEN NoResponse ELSE Redirected(username, slug)
            ELSE /\ response' = Redirected(username, slug)
                 /\ UNCHANGED tasks
    /\ UNCHANGED <<users, nextUserId, links, nextLinkId, deletedLinks, clicks, req,
                   eager, outbox>>

\* LinkPublicRedirectView.get
Redirect(username, slug, referrer, user_agent, xff, remote, trust, brokerUp) ==
    /\ eager => brokerUp
    /\ IF username \notin users \/ ~Held(links, username, slug)
       THEN /\ response' = [op |-> "redirect", user |-> username, slug |-> slug,
                            result |-> "404"]
            /\ UNCHANGED tasks
       ELSE LET link == CHOOSE l \in links : l.user = username /\ l.slug = slug IN
            IF brokerUp
            THEN /\ Len(tasks) < MaxTasks
                 /\ Enqueue("click", link.id,
                            [referrer |-> referrer, user_agent |-> user_agent,
                             ip_address |-> get_client_ip(xff, remote, trust)])
                 /\ response' = IF eager THEN NoResponse ELSE Redirected(username, slug)
            ELSE /\ response' = Redirected(username, slug)
                 /\ UNCHANGED tasks
    /\ UNCHANGED <<users, nextUserId, links, nextLinkId, deletedLinks, clicks, req,
                   eager, outbox>>

\* RegisterView.form_valid: the user row is created, then the welcome email
\* is queued.
Register(brokerUp) ==
    /\ eager => brokerUp
    /\ nextUserId <= MaxUsers
    /\ users' = users \cup {nextUserId}
    /\ nextUserId' = nextUserId + 1
    /\ IF brokerUp
       THEN /\ Len(tasks) < MaxTasks
            /\ Enqueue("welcome", nextUserId, NoPayload)
            /\ response' = IF eager THEN NoResponse
                           ELSE [op |-> "register", user |-> nextUserId, slug |-> <<>>,
                                 result |-> "302"]
       ELSE /\ response' = [op |-> "register", user |-> nextUserId, slug |-> <<>>,
                            result |-> "302"]
            /\ UNCHANGED tasks
    /\ UNCHANGED <<links, nextLinkId, deletedLinks, clicks, req, eager, outbox>>

PasswordReset_any_address(u, brokerUp) ==
    /\ eager => brokerUp
    /\ IF brokerUp
       THEN /\ Len(tasks) < MaxTasks
            /\ Enqueue("reset", u, NoPayload)
            /\ response' = IF eager THEN NoResponse
                           ELSE [op |-> "reset", user |-> u, slug |-> <<>>, result |-> "302"]
       ELSE /\ response' = [op |-> "reset", user |-> u, slug |-> <<>>, result |-> "302"]
            /\ UNCHANGED tasks
    /\ UNCHANGED <<users, nextUserId, links, nextLinkId, deletedLinks, clicks, req,
                   eager, outbox>>

\* CustomPasswordResetView with CustomPasswordResetForm.save for the email
\* address of account u: get_users yields the account when it exists.
PasswordReset(u, brokerUp) ==
    /\ eager => brokerUp
    /\ IF u \in users /\ brokerUp
       THEN /\ Len(tasks) < MaxTasks
            /\ Enqueue("reset", u, NoPayload)
            /\ response' = IF eager THEN NoResponse
                           ELSE [op |-> "reset", user |-> u, slug |-> <<>>, result |-> "302"]
       ELSE /\ response' = [op |-> "reset", user |-> u, slug |-> <<>>, result |-> "302"]
            /\ UNCHANGED tasks
    /\ UNCHANGED <<users, nextUserId, links, nextLinkId, deletedLinks, clicks, req,
                   eager, outbox>>

\* Deleting an account in the admin: Link.user and Click.link cascade.
DeleteUser(u) ==
    /\ u \in users
    /\ users' = users \ {u}
    /\ links' = {l \in links : l.user # u}
    /\ clicks' = {c \in clicks : \E l \in links' : l.id = c.link}
    /\ deletedLinks' = deletedLinks \cup {l.id : l \in {x \in links : x.user = u}}
    /\ response' = NoResponse
    /\ UNCHANGED <<nextUserId, nextLinkId, req, taskVars>>

\* A worker (or, in eager mode, the caller) starts executing the task.
WorkerStart(t) ==
    /\ tasks[t].state = "PENDING"
    /\ tasks' = [tasks EXCEPT ![t] =
                   [@ EXCEPT !.state = "RUNNING", !.execs = @ + 1,
                             !.pc = IF tasks[t].kind = "click" THEN "lookup" ELSE "body"]]
    /\ response' = NoResponse
    /\ UNCHANGED <<users, nextUserId, links, nextLinkId, deletedLinks, clicks, req,
                   eager, outbox>>

EmailBody(kind, exists, sendRaises) ==
    IF kind = "welcome" THEN send_welcome_email(exists, sendRaises)
    ELSE send_password_reset_email(exists, sendRaises)

\* The body of an email task runs: User.objects.get, send_templated_email.
RunEmail(t, sendRaises) ==
    /\ tasks[t].state = "RUNNING"
    /\ tasks[t].kind \in EmailKinds
    /\ LET r == EmailBody(tasks[t].kind, tasks[t].arg \in users, sendRaises) IN
       /\ tasks' = [tasks EXCEPT ![t] =
                      [@ EXCEPT !.log = r.log, !.pc = "",
                                !.missing = tasks[t].arg \notin users,
                                !.state = IF r.raised THEN autoretry(tasks[t].retries)
                                          ELSE "SUCCEEDED"]]
       /\ outbox' = outbox + r.sent
    /\ response' = NoResponse
    /\ UNCHANGED <<users, nextUserId, links, nextLinkId, deletedLinks, clicks, req, eager>>

\* record_link_click: Link.objects.filter(id=link_id).first()
ClickLookup(t) ==
    /\ tasks[t].state = "RUNNING"
    /\ tasks[t].pc = "lookup"
    /\ tasks' = [tasks EXCEPT ![t] =
                   IF \E l \in links : l.id = tasks[t].arg
                   THEN [@ EXCEPT !.pc = "create"]
                   ELSE [@ EXCEPT !.pc = "", !.state = "SUCCEEDED", !.log = "WARNING",
                                  !.missing = TRUE]]
    /\ response' = NoResponse
    /\ UNCHANGED <<users, nextUserId, links, nextLinkId, deletedLinks, clicks, req,
                   eager, outbox>>

\* The outcomes of a database write: it is stored and returns; it fails and
\* stores nothing; or it is committed and the call still raises (the
\* connection drops before the commit is acknowledged).
WriteOutcomes == {"ok", "error", "error_after_commit"}

click_row_empty(t, task) ==
    [id |-> <<t, task.rows + 1>>, link |-> task.arg, referrer |-> "",
     user_agent |-> "", ip_address |-> None]

\* Click.objects.create(link=link, referrer=..., user_agent=..., ip_address=...)
click_row(t, task) ==
    [id |-> <<t, task.rows + 1>>, link |-> task.arg,
     referrer |-> task.payload.referrer, user_agent |-> task.payload.user_agent,
     ip_address |-> ip_address_prep(task.payload.ip_address)]

stored_never(outcome) == FALSE

\* Does the write store its row?
stored(outcome) == outcome \in {"ok", "error_after_commit"}

ClickCreate_no_foreign_key(t, outcome) ==
    /\ tasks[t].state = "RUNNING"
    /\ tasks[t].pc = "create"
    /\ clicks' = IF stored(outcome) THEN clicks \cup {click_row(t, tasks[t])} ELSE clicks
    /\ tasks' = [tasks EXCEPT ![t] =
                   [@ EXCEPT !.pc = "",
                             !.rows = IF stored(outcome) THEN @ + 1 ELSE @,
                             !.log = IF outcome = "ok" THEN "DEBUG" ELSE @,
                             !.state = IF outcome = "ok" THEN "SUCCEEDED"
                                       ELSE autoretry(tasks[t].retries)]]
    /\ response' = NoResponse
    /\ UNCHANGED <<users, nextUserId, links, nextLinkId, deletedLinks, req, eager, outbox>>

\* record_link_click: Click.objects.create and the return. The foreign key
\* refuses a row whose link was deleted after the lookup.
ClickCreate(t, outcome) ==
    /\ tasks[t].state = "RUNNING"
    /\ tasks[t].pc = "create"
    /\ IF ~(\E l \in links : l.id = tasks[t].arg)
       THEN /\ tasks' = [tasks EXCEPT ![t] =
                           [@ EXCEPT !.pc = "", !.state = autoretry(tasks[t].retries)]]
            /\ UNCHANGED clicks
       ELSE /\ clicks' = IF stored(outcome) THEN clicks \cup {click_row(t, tasks[t])}
                         ELSE clicks
            /\ tasks' = [tasks EXCEPT ![t] =
                           [@ EXCEPT !.pc = "",
                                     !.rows = IF stored(outcome) THEN @ + 1 ELSE @,
                                     !.log = IF outcome = "ok" THEN "DEBUG" ELSE @,
                                     !.state = IF outcome = "ok" THEN "SUCCEEDED"
                                               ELSE autoretry(tasks[t].retries)]]
    /\ response' = NoResponse
    /\ UNCHANGED <<users, nextUserId, links, nextLinkId, deletedLinks, req, eager, outbox>>

Redeliver_dropped(t) ==
    /\ tasks[t].state = "FAILED_RETRYABLE"
    /\ UNCHANGED vars

\* The retry message scheduled by Task.retry reaches the queue.
Redeliver(t) ==
    /\ tasks[t].state = "FAILED_RETRYABLE"
    /\ tasks' = [tasks EXCEPT ![t] = [@ EXCEPT !.state = "PENDING", !.retries = @ + 1]]
    /\ response' = NoResponse
    /\ UNCHANGED <<users, nextUserId, links, nextLinkId, deletedLinks, clicks, req,
                   eager, outbox>>

\* Eager mode: .delay() returns, or (EAGER_PROPAGATES) raises the task's
\* exception, once the task has run to its end; the caller then responds.
CallerReturn(t) ==
    /\ tasks[t].caller.st = "waiting"
    /\ tasks[t].state \in Terminal
    /\ tasks' = [tasks EXCEPT ![t] =
                   [@ EXCEPT !.caller = delay_outcome(tasks[t].kind,
                                                      tasks[t].state = "FAILED_TERMINAL")]]
    /\ response' = [op |-> IF tasks[t].kind = "click" THEN "redirect"
                           ELSE IF tasks[t].kind = "welcome" THEN "register" ELSE "reset",
                    user |-> 0, slug |-> <<>>,
                    result |-> IF tasks'[t].caller.raised THEN "500" ELSE "302"]
    /\ UNCHANGED <<users, nextUserId, links, nextLinkId, deletedLinks, clicks, req,
                   eager, outbox>>

\* CELERY_TASK_TIME_LIMIT (30 minutes) is the hard time limit of the worker
\* pool: when an execution is still running at the limit the pool kills the
\* process that runs it and the task is marked failed (TimeLimitExceeded).
\* Nothing is raised inside the task body, so the autoretry wrapper does
\* not run and no retry is scheduled; the message was acknowledged when the
\* execution started (acks_late is not set) and is not delivered again.
TimeLimit(t) ==
    /\ ~eager
    /\ tasks[t].state = "RUNNING"
    /\ tasks' = [tasks EXCEPT ![t] =
                   [@ EXCEPT !.state = "FAILED_TERMINAL", !.pc = "killed",
                             !.log = "ERROR"]]
    /\ response' = NoResponse
    /\ UNCHANGED <<users, nextUserId, links, nextLinkId, deletedLinks, clicks, req,
                   eager, outbox>>

-----------------------------------------------------------------------------
(* The countdown of a retry: with retry_backoff, retry_backoff_max and     *)
(* retry_jitter the autoretry wrapper passes                               *)
(* get_exponential_backoff_interval(factor, retries, maximum, full_jitter) *)
(* to Task.retry as countdown.                                             *)

Min(a, b) == IF a <= b THEN a ELSE b

Max(a, b) == IF a >= b THEN a ELSE b

\* random.randrange(n) on the raw value u of the random source
randrange(n, u) == u % n

backoff_ceiling_uncapped(factor, retries, maximum) == factor * (2 ^ retries)

\* countdown = min(maximum, factor * (2 ** retries))
backoff_ceiling(factor, retries, maximum) == Min(maximum, factor * (2 ^ retries))

\* if full_jitter: countdown = random.randrange(countdown + 1);
\* return max(0, countdown)
get_exponential_backoff_interval(factor, retries, maximum, u) ==
    LET countdown == backoff_ceiling(factor, retries, maximum)
    IN  Max(0, randrange(countdown + 1, u))

\* A running execution of a welcome email task that has been retried k
\* times before; the message has no countdown yet.
RunningWithRetries(k) ==
    [kind |-> "welcome", arg |-> 1, payload |-> NoPayload, state |-> "RUNNING",
     pc |-> "body", retries |-> k, execs |-> k + 1, rows |-> 0, log |-> "none",
     missing |-> FALSE, caller |-> delay_outcome("welcome", FALSE), countdown |-> None]

\* The body raises and the autoretry wrapper schedules the retry with its
\* countdown. CELERY_TASK_MAX_RETRIES is read from the environment, so the
\* countdown is computed for every retry count up to MaxBackoffRetries.
ScheduleRetry(t, u) ==
    /\ tasks[t].state = "RUNNING"
    /\ tasks' = [tasks EXCEPT ![t] =
                   [@ EXCEPT !.state = "FAILED_RETRYABLE", !.log = "ERROR",
                             !.countdown = get_exponential_backoff_interval(
                                 RETRY_BACKOFF, tasks[t].retries, RETRY_BACKOFF_MAX, u)]]
    /\ response' = NoResponse
    /\ UNCHANGED <<users, nextUserId, links, nextLinkId, deletedLinks, clicks, req,
                   eager, outbox>>

InitBackoff ==
    /\ users = {1}
    /\ nextUserId = 2
    /\ links = {}
    /\ nextLinkId = 1
    /\ deletedLinks = {}
    /\ clicks = {}
    /\ req = [r \in 1..MaxReqs |-> IdleReq]
    /\ response = NoResponse
    /\ eager = FALSE
    /\ \E k \in 0..MaxBackoffRetries : tasks = <<RunningWithRetries(k)>>
    /\ outbox = 0

NextBackoff == \E t \in TaskIds, u \in 0..MaxRandom : ScheduleRetry(t, u)

SpecBackoff == InitBackoff /\ [][NextBackoff]_vars

-----------------------------------------------------------------------------
\* A database with the two accounts and one link of the first.
InitTasks ==
    /\ users = InitialUsers
    /\ nextUserId = 3
    /\ links = {[id |-> 1, user |-> 1, slug |-> <<"m", "y">>, gen |-> FALSE]}
    /\ nextLinkId = 2
    /\ deletedLinks = {}
    /\ clicks = {}
    /\ req = [r \in 1..MaxReqs |-> IdleReq]
    /\ response = NoResponse
    /\ eager \in BOOLEAN
    /\ tasks = <<>>
    /\ outbox = 0

NextEmail ==
    \/ \E b \in BOOLEAN : Register(b)
    \/ \E u \in 1..MaxUsers, b \in BOOLEAN : PasswordReset(u, b)
    \/ \E u \in users : DeleteUser(u)
    \/ \E t \in TaskIds : WorkerStart(t)
    \/ \E t \in TaskIds, sendRaises \in BOOLEAN : RunEmail(t, sendRaises)
    \/ \E t \in TaskIds : Redeliver(t)
    \/ \E t \in TaskIds : CallerReturn(t)

SpecEmail == InitTasks /\ [][NextEmail]_vars

\* A database with one account and its link; tasks go through the broker.
InitClicks ==
    /\ users = {1}
    /\ nextUserId = 2
    /\ links = {[id |-> 1, user |-> 1, slug |-> <<"m", "y">>, gen |-> FALSE]}
    /\ nextLinkId = 2
    /\ deletedLinks = {}
    /\ clicks = {}
    /\ req = [r \in 1..MaxReqs |-> IdleReq]
    /\ response = NoResponse
    /\ eager = FALSE
    /\ tasks = <<>>
    /\ outbox = 0

NextClicks ==
    \/ \E u \in 1..MaxUsers, s \in RedirectSlugs, ref \in Referrers, ua \in UserAgents,
          xff \in ForwardedFors, remote \in RemoteAddrs, trust \in BOOLEAN,
          b \in BOOLEAN :
          Redirect(u, s, ref, ua, xff, remote, trust, b)
    \/ \E u \in users, pk \in 1..(nextLinkId - 1) : DeleteLink(u, pk)
    \/ \E u \in users : DeleteUser(u)
    \/ \E t \in TaskIds : WorkerStart(t)
    \/ \E t \in TaskIds : ClickLookup(t)
    \/ \E t \in TaskIds, outcome \in WriteOutcomes : ClickCreate(t, outcome)
    \/ \E t \in TaskIds : Redeliver(t)

SpecClicks == InitClicks /\ [][NextClicks]_vars

\* Password-reset emails on a worker pool with the hard time limit.
NextTimeLimit ==
    \/ \E u \in 1..MaxUsers, b \in BOOLEAN : PasswordReset(u, b)
    \/ \E t \in TaskIds : WorkerStart(t)
    \/ \E t \in TaskIds, sendRaises \in BOOLEAN : RunEmail(t, sendRaises)
    \/ \E t \in TaskIds : Redeliver(t)
    \/ \E t \in TaskIds : TimeLimit(t)

SpecTimeLimit == InitClicks /\ [][NextTimeLimit]_vars

-----------------------------------------------------------------------------
(* Claims about the Link table *)

\* C1: in every reachable state, for every owner o and slug s at most one
\* Link row has (user = o, slug = s), whatever the interleaving of the
\* create and update requests (two requests may both pass clean_slug before
\* either writes).
C1_UniquePerOwner ==
    \A l1 \in links, l2 \in links :
        (l1.user = l2.user /\ l1.slug = l2.slug) => l1 = l2

\* The race happened: a request that had passed clean_slug was refused by
\* the constraint because the other request stored the same (user, slug).
C1_Witness ==
    /\ response.result = "IntegrityError"
    /\ Held(links, response.user, response.slug)

\* C2: slug uniqueness is per owner. A create form whose slug is held only
\* by other owners is never refused as taken, and when such a link is
\* inserted the insert succeeds and both owners' links exist afterwards.
C2_NotRefused ==
    (response.op = "create" /\ response.result = "SlugAlreadyTaken")
        => Held(links, response.user, response.slug)

C2_InsertStep ==
    \A r \in 1..MaxReqs :
        ( /\ req[r].pc = "write" /\ req[r].op = "create" /\ req'[r].pc = "idle"
          /\ ~Held(links, req[r].user, req[r].slug)
          /\ \E l \in links : l.slug = req[r].slug /\ l.user # req[r].user )
        => /\ response'.result = "created"
           /\ Held(links', req[r].user, req[r].slug)
           /\ \E l \in links' : l.slug = req[r].slug /\ l.user # req[r].user

C2_PerOwnerScope == [](C2_NotRefused) /\ [][C2_InsertStep]_vars

C2_Witness ==
    /\ response.result = "created"
    /\ \E l1 \in links, l2 \in links : l1.slug = l2.slug /\ l1.user # l2.user

\* C3: every link saved with an empty slug carries a generated slug of
\* exactly SLUG_LENGTH characters, all of them in SLUG_ALPHABET (a-z0-9).
C3_GeneratedSlugValid ==
    \A l \in links :
        l.gen => /\ Len(l.slug) = SLUG_LENGTH
                 /\ \A i \in 1..Len(l.slug) : l.slug[i] \in AlphabetSet

C3_Witness == \E l \in links : l.gen /\ l.slug # <<>>

\* C10: a create form with a non-empty slug that the same owner already
\* holds is refused with the slug-taken validation error and stores nothing:
\* such a form is never accepted, its refusal is SlugAlreadyTaken, and the
\* Link table is unchanged by the step.
C10_FormStep ==
    /\ \A r \in 1..MaxReqs :
          (req[r].pc = "idle" /\ req'[r].pc # "idle" /\ req'[r].op = "create"
             /\ req'[r].slug # <<>>)
          => ~Held(links, req'[r].user, req'[r].slug)
    /\ ( /\ response'.op = "create" /\ req' = req
         /\ response'.slug # <<>>
         /\ Held(links, response'.user, response'.slug) )
       => (response'.result = "SlugAlreadyTaken" /\ links' = links)

-----------------------------------------------------------------------------
(* Claims about the Celery tasks *)

\* C4: a task whose every execution fails is executed exactly max_attempts
\* times (the first execution and CELERY_TASK_MAX_RETRIES retries) and is
\* then FAILED_TERMINAL; no task is ever executed more often; and a task
\* that failed for good stays so and is not executed again.
C4_ExecsBounded ==
    \A t \in TaskIds :
        /\ tasks[t].execs <= max_attempts
        /\ tasks[t].state = "FAILED_TERMINAL" => tasks[t].execs = max_attempts

C4_TerminalStep ==
    \A t \in TaskIds :
        tasks[t].state = "FAILED_TERMINAL" =>
            /\ tasks'[t].state = "FAILED_TERMINAL"
            /\ tasks'[t].execs = tasks[t].execs

C4_RetryTermination == [](C4_ExecsBounded) /\ [][C4_TerminalStep]_vars

C4_Witness ==
    \E t \in TaskIds :
        /\ tasks[t].state = "FAILED_TERMINAL"
        /\ tasks[t].kind \in EmailKinds
        /\ ~tasks[t].missing

\* C5: when the body of a welcome or password-reset email task runs and no
\* user row has the task's id, that execution ends the task as SUCCEEDED: it
\* does not raise, no retry is scheduled (retries stays as it was), no email
\* is sent, and a warning is logged.
C5_NotFoundStep ==
    \A t \in TaskIds :
        (/\ tasks[t].kind \in EmailKinds
         /\ tasks[t].state = "RUNNING"
         /\ tasks'[t].state # "RUNNING"
         /\ tasks[t].arg \notin users)
        => /\ tasks'[t].state = "SUCCEEDED"
           /\ tasks'[t].retries = tasks[t].retries
           /\ tasks'[t].log = "WARNING"
           /\ outbox' = outbox

C5_NotFoundNoOp == [][C5_NotFoundStep]_vars

C5_Witness ==
    \E t1 \in TaskIds, t2 \in TaskIds :
        /\ tasks[t1].kind = "welcome" /\ tasks[t2].kind = "reset"
        /\ tasks[t1].missing /\ tasks[t2].missing
        /\ tasks[t1].state = "SUCCEEDED" /\ tasks[t2].state = "SUCCEEDED"
        /\ outbox = 0

\* A password-reset task whose last execution found no user row.
ResetNotFound(t) ==
    /\ tasks[t].kind = "reset"
    /\ tasks[t].missing
    /\ tasks[t].caller.st = "returned"
    /\ tasks[t].state \notin {"PENDING", "RUNNING"}

\* A password-reset task for an existing user whose delivery failed, was
\* retried and went through.
ResetDelayed(t) ==
    /\ tasks[t].kind = "reset"
    /\ ~tasks[t].missing
    /\ tasks[t].retries >= 1
    /\ tasks[t].caller.st = "returned"
    /\ tasks[t].state = "SUCCEEDED"

ClicksOf(linkId) == {c \in clicks : c.link = linkId}

SucceededFor(linkId) ==
    {t \in TaskIds : tasks[t].kind = "click" /\ tasks[t].arg = linkId
                     /\ tasks[t].state = "SUCCEEDED"}

\* C7 (as the code has it): for every link that was never deleted, there
\* are at least as many Click rows of the link as record_link_click tasks
\* queued for it that succeeded, whatever the interleaving of the workers
\* and whichever executions failed and were retried.
C7_AtLeastOnce ==
    \A l \in links :
        l.id \notin deletedLinks =>
            Cardinality(ClicksOf(l.id)) >= Cardinality(SucceededFor(l.id))

\* C7 as stated: once all the queued record_link_click tasks (each queued
\* for a link that existed then) have succeeded, there are at least as many
\* Click rows as tasks.
C7_AsStated ==
    (\A t \in TaskIds : tasks[t].state = "SUCCEEDED")
    => Cardinality(clicks) >= Len(tasks)

C7_Witness ==
    /\ Len(tasks) = MaxTasks
    /\ \A t \in TaskIds : tasks[t].state = "SUCCEEDED" /\ ~tasks[t].missing
    /\ \E t \in TaskIds : tasks[t].retries >= 1
    /\ \E l \in links : l.id \notin deletedLinks /\ Cardinality(ClicksOf(l.id)) >= MaxTasks

\* A step in which an execution of record_link_click for an existing link
\* returns.
ClickSucceeds(t) ==
    /\ tasks[t].kind = "click"
    /\ tasks[t].state = "RUNNING"
    /\ tasks[t].pc = "create"
    /\ tasks'[t].state = "SUCCEEDED"

\* C8 (as the code has it): each successful execution of record_link_click
\* for an existing link adds exactly one Click row, attached to that link,
\* with the referrer and the user agent of the payload as given and the IP
\* address of the payload in the normal form of GenericIPAddressField: as
\* given when it is None, IPv4 or a compressed lower-case IPv6 literal, and
\* compressed and lower-cased otherwise.
C8_StoreStep ==
    \A t \in TaskIds :
        ClickSucceeds(t) =>
            \E c \in clicks' \ clicks :
                /\ clicks' = clicks \cup {c}
                /\ c.link = tasks[t].arg
                /\ c.referrer = tasks[t].payload.referrer
                /\ c.user_agent = tasks[t].payload.user_agent
                /\ c.ip_address = IF tasks[t].payload.ip_address = IPv6Expanded
                                  THEN IPv6Canonical
                                  ELSE tasks[t].payload.ip_address

C8_OneRowPerSuccess == [][C8_StoreStep]_vars

\* C8 as stated: the row carries the IP address of the payload unchanged.
C8_AsStatedStep ==
    \A t \in TaskIds :
        ClickSucceeds(t) =>
            \E c \in clicks' \ clicks :
                /\ clicks' = clicks \cup {c}
                /\ c.link = tasks[t].arg
                /\ c.referrer = tasks[t].payload.referrer
                /\ c.user_agent = tasks[t].payload.user_agent
                /\ c.ip_address = tasks[t].payload.ip_address

C8_AsStated == [][C8_AsStatedStep]_vars

C8_Witness ==
    \E t \in TaskIds, c \in clicks :
        /\ tasks[t].state = "SUCCEEDED"
        /\ c.id[1] = t
        /\ tasks[t].payload.ip_address = IPv6Expanded
        /\ c.ip_address = IPv6Canonical
        /\ c.referrer = tasks[t].payload.referrer

\* C9: over all the executions of one record_link_click task, at most two
\* Click rows are stored for it.
C9_AtMostOneDuplicate == \A t \in TaskIds : tasks[t].rows <= 2

-----------------------------------------------------------------------------
(* Claims about slug allocation *)

\* C11: no stored Link has a non-empty slug that is longer than 32
\* characters or has a character outside a-z, 0-9, "_" and "-", whether the
\* link was stored through the form or through a direct Link.save.
C11_StoredSlugsValid ==
    \A l \in links :
        /\ Len(l.slug) <= 32
        /\ \A i \in 1..Len(l.slug) : l.slug[i] \in AlphabetSet \cup {"_", "-"}

\* C12: a request whose slug is not empty never enters the generation loop
\* (no candidate is drawn for it), and when its write succeeds the row is
\* stored with exactly the slug that was requested.
C12_NoDraw ==
    \A r \in 1..MaxReqs :
        /\ req[r].pc = "gen" => req[r].slug = <<>>
        /\ (req[r].pc = "write" /\ ~req[r].auto) => req[r].slug # <<>>

C12_StoreStep ==
    \A r \in 1..MaxReqs :
        (/\ req[r].pc = "write"
         /\ ~req[r].auto
         /\ req'[r].pc = "idle"
         /\ response'.result \in {"created", "updated"})
        => /\ response'.slug = req[r].slug
           /\ \E l \in links' :
                 l.user = req[r].user /\ l.slug = req[r].slug /\ ~l.gen
           /\ req[r].pk = NoPk => Cardinality(links' \ links) = 1

C12_RequestedSlugKept == [](C12_NoDraw) /\ [][C12_StoreStep]_vars

C12_Witness ==
    /\ response.op = "create"
    /\ response.result = "created"
    /\ response.slug = <<"m", "y">>
    /\ \E l \in links : l.user = response.user /\ l.slug = response.slug /\ ~l.gen

\* C13: when no slug is requested, _generate_unique_slug draws at most
\* GEN_ATTEMPTS (10) candidates; it returns a candidate only if the owner
\* holds no link with it at that moment, every candidate before it having
\* collided; and when the tenth candidate collides too the save fails with
\* RuntimeError (the spec's AllocationExhausted) and stores nothing.
C13_DrawsBounded ==
    \A r \in 1..MaxReqs : req[r].tries < GEN_ATTEMPTS

C13_LoopStep ==
    \A r \in 1..MaxReqs :
        (req[r].pc = "gen" /\ req'[r] # req[r]) =>
            /\ links' = links
            /\ req'[r].pc = "write" =>
                   /\ ~Held(links, req[r].user, req'[r].slug)
                   /\ Len(req'[r].slug) = SLUG_LENGTH
            /\ req'[r].pc = "gen" => req'[r].tries = req[r].tries + 1
            /\ req'[r].pc = "idle" =>
                   /\ req[r].tries = GEN_ATTEMPTS - 1
                   /\ response'.result = "RuntimeError"

C13_BoundedGeneration == [](C13_DrawsBounded) /\ [][C13_LoopStep]_vars

C13_Witness ==
    /\ response.result = "RuntimeError"
    /\ \E l \in links : l.user = response.user /\ l.gen

\* The insert of request r is refused by the unique constraint in this step.
InsertRefused(r) ==
    /\ req[r].pc = "write"
    /\ req[r].pk = NoPk
    /\ req'[r] # req[r]
    /\ UniqueViolation(links, req[r].user, req[r].slug, NoPk)

\* C14: when the insert of a generated slug is refused by the unique
\* constraint, the save goes back to the generation loop for a new
\* candidate and the create does not fail.
C14_RetryStep ==
    \A r \in 1..MaxReqs :
        (InsertRefused(r) /\ req[r].auto) =>
            /\ req'[r].pc = "gen"
            /\ response'.result # "IntegrityError"

C14_ViolationRetried == [][C14_RetryStep]_vars

\* C15: when the insert of a requested slug is refused by the unique
\* constraint, the create fails with SlugAlreadyTaken, the validation error
\* of clean_slug.
C15_RefusedStep ==
    \A r \in 1..MaxReqs :
        (InsertRefused(r) /\ ~req[r].auto) =>
            response'.result = "SlugAlreadyTaken"

C15_ViolationIsSlugTaken == [][C15_RefusedStep]_vars

-----------------------------------------------------------------------------
(* Claims about the task runner *)

\* C16: a Click row is inserted only by a step of a running
\* record_link_click execution, never by the step of a request; the
\* redirect view only queues the task (a new PENDING message that has not
\* run) and leaves the Click table alone; and outside eager mode the view
\* answers in that same step, without waiting for the task.
C16_InsertStep ==
    (clicks' \ clicks # {}) =>
        /\ Len(tasks') = Len(tasks)
        /\ response' = NoResponse
        /\ \E t \in TaskIds :
              /\ tasks[t].kind = "click"
              /\ tasks[t].state = "RUNNING"
              /\ tasks'[t].rows = tasks[t].rows + 1
              /\ \A c \in clicks' \ clicks : c.id[1] = t /\ c.link = tasks[t].arg

C16_RedirectStep ==
    (Len(tasks') > Len(tasks)) =>
        LET new == tasks'[Len(tasks')] IN
        /\ clicks' = clicks
        /\ new.state = "PENDING"
        /\ new.execs = 0
        /\ ~eager => (new.caller.st = "returned" /\ response'.result = "302")

C16_NotInRequest ==
    ~eager => \A t \in TaskIds : tasks[t].caller.st = "returned"

C16_ClicksOnlyByTask ==
    [](C16_NotInRequest) /\ [][C16_InsertStep /\ C16_RedirectStep]_vars

C16_Witness ==
    /\ ~eager
    /\ Len(tasks) = 2
    /\ tasks[2].kind = "click" /\ tasks[2].state = "PENDING"
    /\ response.op = "redirect" /\ response.result = "302"
    /\ \E c \in clicks : c.id[1] = 1

\* The state changes the spec's state machine allows.
AllowedTransitions ==
    { <<"PENDING", "RUNNING">>,
      <<"RUNNING", "SUCCEEDED">>, <<"RUNNING", "FAILED_RETRYABLE">>,
      <<"RUNNING", "FAILED_TERMINAL">>,
      <<"FAILED_RETRYABLE", "PENDING">>, <<"FAILED_RETRYABLE", "FAILED_TERMINAL">> }

\* C17: a task changes state only along PENDING -> RUNNING ->
\* {SUCCEEDED, FAILED_RETRYABLE, FAILED_TERMINAL} and FAILED_RETRYABLE ->
\* PENDING (only with executions left) or FAILED_TERMINAL (only with none
\* left); SUCCEEDED and FAILED_TERMINAL are never left; the number of
\* executions and the retry counter never decrease, and the number of
\* executions never exceeds max_attempts.
C17_TransitionStep ==
    \A t \in TaskIds :
        /\ tasks'[t].state # tasks[t].state =>
               <<tasks[t].state, tasks'[t].state>> \in AllowedTransitions
        /\ (tasks[t].state = "FAILED_RETRYABLE" /\ tasks'[t].state = "PENDING") =>
               tasks[t].execs < max_attempts
        /\ (tasks[t].state = "FAILED_RETRYABLE" /\ tasks'[t].state = "FAILED_TERMINAL") =>
               tasks[t].execs = max_attempts
        /\ tasks[t].state \in Terminal => tasks'[t].state = tasks[t].state
        /\ tasks'[t].execs >= tasks[t].execs
        /\ tasks'[t].retries >= tasks[t].retries

C17_AttemptsBounded ==
    \A t \in TaskIds :
        /\ tasks[t].execs <= max_attempts
        /\ tasks[t].state \in {"PENDING", "RUNNING", "SUCCEEDED", "FAILED_RETRYABLE",
                               "FAILED_TERMINAL"}

C17_StateMachine == [](C17_AttemptsBounded) /\ [][C17_TransitionStep]_vars

C17_Witness ==
    \E t1 \in TaskIds, t2 \in TaskIds :
        /\ tasks[t1].kind = "click" /\ tasks[t2].kind = "click"
        /\ tasks[t1].state = "FAILED_TERMINAL" /\ tasks[t1].execs = max_attempts
        /\ tasks[t2].state = "SUCCEEDED" /\ tasks[t2].retries >= 1

\* C18: the countdown of the retry after k earlier retries is between 0 and
\* min(600, 2^k) seconds (the factor is 1), and that ceiling doubles with
\* every retry until it reaches the cap of 600.
C18_BackoffCapped ==
    /\ \A t \in TaskIds :
          tasks[t].state = "FAILED_RETRYABLE" =>
              /\ tasks[t].countdown >= 0
              /\ tasks[t].countdown <= 600
              /\ tasks[t].countdown <= 2 ^ tasks[t].retries
    /\ \A k \in 0..(MaxBackoffRetries - 1) :
          backoff_ceiling(RETRY_BACKOFF, k + 1, RETRY_BACKOFF_MAX)
              = Min(600, 2 * backoff_ceiling(RETRY_BACKOFF, k, RETRY_BACKOFF_MAX))

C18_Witness ==
    \E t \in TaskIds :
        /\ tasks[t].state = "FAILED_RETRYABLE"
        /\ tasks[t].retries >= 10
        /\ tasks[t].countdown = 600

\* C19: an execution that is killed at the hard time limit counts as a
\* failed attempt and is retried like one whose body raised: it ends
\* FAILED_RETRYABLE while retries are left and FAILED_TERMINAL otherwise.
C19_KilledStep ==
    \A t \in TaskIds :
        (tasks[t].state = "RUNNING" /\ tasks'[t].pc = "killed") =>
            tasks'[t].state = IF tasks[t].retries < CELERY_TASK_MAX_RETRIES
                              THEN "FAILED_RETRYABLE" ELSE "FAILED_TERMINAL"

C19_TimeLimitRetried == [][C19_KilledStep]_vars

\* A step in which an execution of an email task for an existing user ends
\* without an email having been sent: send_templated_email raised.
SendFailed(t) ==
    /\ tasks[t].kind \in EmailKinds
    /\ tasks[t].state = "RUNNING"
    /\ tasks'[t].state # "RUNNING"
    /\ tasks[t].arg \in users
    /\ outbox' = outbox

\* C20 (as the code has it): when the user exists and sending the email
\* raises, the task logs an error and re-raises; the attempt ends
\* FAILED_RETRYABLE, with a retry to come, while retries are left, and
\* FAILED_TERMINAL on the last attempt. Outside eager mode the caller of
\* .delay() has returned before any execution and nothing is raised to it.
C20_SendFailedStep ==
    \A t \in TaskIds :
        SendFailed(t) =>
            /\ tasks'[t].log = "ERROR"
            /\ tasks'[t].state = IF tasks[t].retries < CELERY_TASK_MAX_RETRIES
                                  THEN "FAILED_RETRYABLE" ELSE "FAILED_TERMINAL"
            /\ ~eager => tasks'[t].caller = tasks[t].caller

C20_NotSurfaced ==
    ~eager => \A t \in TaskIds :
                 /\ tasks[t].caller.st = "returned"
                 /\ ~tasks[t].caller.raised
                 /\ tasks[t].caller.log = "INFO"

C20_FailureRetried == [](C20_NotSurfaced) /\ [][C20_SendFailedStep]_vars

\* C20 as stated: every such attempt ends FAILED_RETRYABLE.
C20_AsStatedStep ==
    \A t \in TaskIds : SendFailed(t) => tasks'[t].state = "FAILED_RETRYABLE"

C20_AsStated == [][C20_AsStatedStep]_vars

C20_Witness ==
    /\ ~eager
    /\ \E t1 \in TaskIds, t2 \in TaskIds :
          /\ tasks[t1].kind = "welcome" /\ tasks[t2].kind = "reset"
          /\ tasks[t1].state = "FAILED_RETRYABLE" /\ tasks[t1].log = "ERROR"
          /\ tasks[t2].state = "FAILED_TERMINAL" /\ tasks[t2].log = "ERROR"
          /\ ~tasks[t1].missing /\ ~tasks[t2].missing

\* The three views that queue a task, with the broker up or down, and the
\* workers (or, in eager mode, the callers) that run the tasks.
NextEnqueue ==
    \/ \E u \in users, s \in RedirectSlugs, ref \in Referrers, ua \in UserAgents,
          remote \in RemoteAddrs, b \in BOOLEAN :
          Redirect(u, s, ref, ua, None, remote, FALSE, b)
    \/ \E b \in BOOLEAN : Register(b)
    \/ \E u \in users, b \in BOOLEAN : PasswordReset(u, b)
    \/ \E t \in TaskIds : WorkerStart(t)
    \/ \E t \in TaskIds, sendRaises \in BOOLEAN : RunEmail(t, sendRaises)
    \/ \E t \in TaskIds : ClickLookup(t)
    \/ \E t \in TaskIds, outcome \in WriteOutcomes : ClickCreate(t, outcome)
    \/ \E t \in TaskIds : Redeliver(t)
    \/ \E t \in TaskIds : CallerReturn(t)

SpecEnqueue == InitTasks /\ [][NextEnqueue]_vars

\* Tasks of both kinds on a worker pool with the hard time limit.
NextWorkers ==
    \/ \E u \in users, s \in RedirectSlugs, ref \in Referrers, ua \in UserAgents,
          remote \in RemoteAddrs, b \in BOOLEAN :
          Redirect(u, s, ref, ua, None, remote, FALSE, b)
    \/ \E u \in 1..MaxUsers, b \in BOOLEAN : PasswordReset(u, b)
    \/ \E t \in TaskIds : WorkerStart(t)
    \/ \E t \in TaskIds, sendRaises \in BOOLEAN : RunEmail(t, sendRaises)
    \/ \E t \in TaskIds : ClickLookup(t)
    \/ \E t \in TaskIds, outcome \in WriteOutcomes : ClickCreate(t, outcome)
    \/ \E t \in TaskIds : Redeliver(t)
    \/ \E t \in TaskIds : TimeLimit(t)

\* A running worker pool: a message that is in the queue is picked up, an
\* execution that has started runs on to its next step, and a retry whose
\* countdown (at most RETRY_BACKOFF_MAX seconds) has passed comes back to
\* the queue. Which executions fail, and whether one hits the time limit,
\* is left open.
WorkersFair ==
    \A t \in 1..MaxTasks :
        /\ WF_vars(t \in TaskIds /\ WorkerStart(t))
        /\ WF_vars(t \in TaskIds /\ \E sendRaises \in BOOLEAN : RunEmail(t, sendRaises))
        /\ WF_vars(t \in TaskIds /\ ClickLookup(t))
        /\ WF_vars(t \in TaskIds /\ \E outcome \in WriteOutcomes : ClickCreate(t, outcome))
        /\ WF_vars(t \in TaskIds /\ Redeliver(t))

SpecWorkersFair == InitClicks /\ [][NextWorkers]_vars /\ WorkersFair

-----------------------------------------------------------------------------
(* The client address of a redirect request *)

\* Values of the X-Forwarded-For header: absent, empty, a proxy chain that
\* starts with an IPv6 or an IPv4 client, one with an empty first entry,
\* and one that is no address.
ForwardedHeaders ==
    {None, <<>>, <<IPv6Expanded, IPv4Sample>>, <<IPv4Forwarded>>,
     <<"", IPv4Forwarded>>, <<"unknown">>}

\* Values of REMOTE_ADDR: an address, none (absent), empty (a server bound
\* to a unix socket), and one that is no address.
RemoteValues == {IPv4Sample, None, "", "unix:"}

\* A redirect request arrives on an idle connection r with its META values,
\* at a deployment whose TRUST_PROXY_HEADERS is trust.
Arrive(r, xff, remote, trust) ==
    /\ req[r].pc = "idle"
    /\ req' = [req EXCEPT ![r] =
                 [pc |-> "meta", xff |-> xff, remote |-> remote, trust |-> trust]]
    /\ response' = NoResponse
    /\ UNCHANGED <<users, nextUserId, links, nextLinkId, deletedLinks, clicks, taskVars>>

\* LinkPublicRedirectView.get serves the request of connection r.
Serve(r, username, slug, referrer, user_agent) ==
    /\ req[r].pc = "meta"
    /\ response.op # "redirect"
    /\ Redirect(username, slug, referrer, user_agent, req[r].xff, req[r].remote,
                req[r].trust, TRUE)

\* The connection is free again once its request was answered.
Close(r) ==
    /\ req[r].pc = "meta"
    /\ response.op = "redirect"
    /\ req' = [req EXCEPT ![r] = IdleReq]
    /\ response' = NoResponse
    /\ UNCHANGED <<users, nextUserId, links, nextLinkId, deletedLinks, clicks, taskVars>>

\* Redirect requests are served one at a time on the first connection, and
\* the workers store the clicks without failures.
NextClientIp ==
    \/ \E xff \in ForwardedHeaders, remote \in RemoteValues, trust \in BOOLEAN :
          Arrive(1, xff, remote, trust)
    \/ \E u \in users, s \in RedirectSlugs, ref \in Referrers, ua \in UserAgents :
          Serve(1, u, s, ref, ua)
    \/ Close(1)
    \/ \E t \in TaskIds : WorkerStart(t)
    \/ \E t \in TaskIds : ClickLookup(t)
    \/ \E t \in TaskIds : ClickCreate(t, "ok")

SpecClientIp == InitClicks /\ [][NextClientIp]_vars

-----------------------------------------------------------------------------
(* The health endpoint *)

\* data[key] of a JSON object, None for a key it does not have.
JsonGet(data, key) == IF key \in DOMAIN data THEN data[key] ELSE None

\* health_check: "SELECT 1" on the database connection, then
\* celery_app.control.inspect().active(); only a failure of the first
\* changes the answer.
health_check(dbOk, brokerOk) ==
    [status_code |-> IF dbOk THEN 200 ELSE 503,
     body |-> [status |-> IF dbOk THEN "ok" ELSE "error"]]

\* GET /health/ while the database is reachable or not (dbOk) and the
\* broker answers or not (brokerOk).
HealthCheck(dbOk, brokerOk) ==
    /\ response' = [op |-> "health", db |-> dbOk, broker |-> brokerOk,
                    http |-> health_check(dbOk, brokerOk)]
    /\ UNCHANGED <<users, nextUserId, links, nextLinkId, deletedLinks, clicks, req,
                   taskVars>>

\* The endpoint polled while password-reset emails go through the queue.
NextHealth ==
    \/ \E dbOk \in BOOLEAN, brokerOk \in BOOLEAN : HealthCheck(dbOk, brokerOk)
    \/ \E u \in 1..MaxUsers, b \in BOOLEAN : PasswordReset(u, b)
    \/ \E t \in TaskIds : WorkerStart(t)
    \/ \E t \in TaskIds, sendRaises \in BOOLEAN : RunEmail(t, sendRaises)
    \/ \E t \in TaskIds : Redeliver(t)

SpecHealth == InitClicks /\ [][NextHealth]_vars

-----------------------------------------------------------------------------
(* Claims about the views *)

\* C21: a public redirect request whose username names no user, or whose
\* slug the named user does not hold, is answered 404; and a redirect
\* request answered 404 queues no task and leaves the Click rows as they
\* were.
C21_MissStep ==
    /\ (/\ response'.op = "redirect"
        /\ \/ response'.user \notin users
           \/ ~(\E l \in links : l.user = response'.user /\ l.slug = response'.slug))
       => response'.result = "404"
    /\ (response'.op = "redirect" /\ response'.result = "404")
       => (tasks' = tasks /\ clicks' = clicks /\ links' = links)

C21_Redirect404 == [][C21_MissStep]_vars

C21_Witness ==
    /\ response.op = "redirect"
    /\ response.result = "404"
    /\ response.user \notin users
    /\ \E l \in links : l.slug = response.slug
    /\ tasks # <<>>

\* C22: the list a user gets holds exactly the links that user owns; a
\* detail or delete request for a link of another owner (or for no link)
\* is answered 404; an update is taken up only for a link the user owns
\* and is answered 404 without effect otherwise; and no list, detail,
\* update or delete step of a user changes or removes a link of another
\* owner.
C22_OwnerStep ==
    /\ response'.op = "list" =>
           response'.rows = {l \in links : l.user = response'.user}
    /\ response'.op \in {"detail", "delete"} =>
           IF \E l \in links : l.id = response'.pk /\ l.user = response'.user
           THEN response'.result # "404"
           ELSE response'.result = "404" /\ links' = links /\ response'.rows = {}
    /\ response'.op = "detail" =>
           (links' = links /\ \A l \in response'.rows : l.user = response'.user)
    /\ \A r \in 1..MaxReqs :
           (req[r].pc = "idle" /\ req'[r].pc # "idle") =>
               \E l \in links : l.id = req'[r].pk /\ l.user = req'[r].user
    /\ (response'.op = "update" /\ response'.result = "404") =>
           (links' = links /\ req' = req)
    /\ response'.op \in {"list", "detail", "update", "delete"} =>
           \A l \in links : l.user # response'.user => l \in links'

C22_OwnerIsolation == [][C22_OwnerStep]_vars

C22_Witness ==
    /\ response.op = "delete"
    /\ response.result = "404"
    /\ \E l \in links : l.id = response.pk /\ l.user # response.user
    /\ \E l \in links : l.user = response.user /\ l.slug # <<"m", "y">>

\* C23: an update is refused as slug-taken only when a link of the same
\* owner other than the one being updated holds the submitted slug (a link
\* never collides with itself); an update whose slug such another link
\* holds is not taken up; and the refusal changes no link and no request.
C23_UpdateStep ==
    /\ (response'.op = "update" /\ response'.result = "SlugAlreadyTaken") =>
           /\ \E l, m \in links :
                 /\ l.user = response'.user /\ m.user = response'.user
                 /\ l.id # m.id
                 /\ m.slug = response'.slug
           /\ links' = links
           /\ req' = req
    /\ \A r \in 1..MaxReqs :
           (req[r].pc = "idle" /\ req'[r].pc # "idle" /\ req'[r].op = "update") =>
               ~\E m \in links : /\ m.user = req'[r].user
                                  /\ m.slug = req'[r].slug
                                  /\ m.id # req'[r].pk

C23_UpdateSlugCheck == [][C23_UpdateStep]_vars

C23_Witness ==
    /\ \E r \in 1..MaxReqs :
          /\ req[r].pc = "write" /\ req[r].op = "update"
          /\ \E l \in links : l.id = req[r].pk /\ l.user = req[r].user
                                /\ l.slug = req[r].slug
    /\ response.op = "update"
    /\ response.result = "SlugAlreadyTaken"

\* C24: a password-reset request for an address of no account queues no
\* task and sends no email, and is answered by the same redirect as every
\* other password-reset request; no password-reset task is ever queued for
\* an account that never existed.
C24_ResetStep ==
    /\ (response'.op = "reset" /\ response'.user # 0 /\ response'.user \notin users) =>
           /\ tasks' = tasks
           /\ outbox' = outbox
           /\ users' = users
    /\ response'.op = "reset" => response'.result = "302"
    /\ \A t \in 1..Len(tasks') :
           tasks'[t].kind = "reset" => tasks'[t].arg < nextUserId'

C24_ResetUnknownAddress == [][C24_ResetStep]_vars

C24_Witness ==
    /\ response.op = "reset"
    /\ response.result = "302"
    /\ response.user >= nextUserId
    /\ \E t \in TaskIds : tasks[t].kind = "reset" /\ tasks[t].caller.st = "returned"
    /\ outbox > 0

\* C25 (as stated): the health endpoint answers 200 with a body whose
\* status is "healthy" and whose database is "connected" when the database
\* is reachable, and 503 exactly when the database check fails, whatever
\* the state of the broker.
C25_HealthyBody ==
    response.op = "health" =>
        /\ response.db =>
              /\ response.http.status_code = 200
              /\ JsonGet(response.http.body, "status") = "healthy"
              /\ JsonGet(response.http.body, "database") = "connected"
        /\ (response.http.status_code = 503) <=> ~response.db

\* C26: a request whose .delay() call fails is answered as if it had not
\* failed. No redirect, registration or password-reset request is ever
\* answered with a server error; a redirect for a link its owner holds is
\* answered 302 also when nothing could be queued; a registration that
\* queues nothing still creates the user and is answered 302; and in eager
\* mode a caller whose task failed for good returns without raising.
C26_EnqueueStep ==
    /\ response'.op \in {"redirect", "register", "reset"} => response'.result # "500"
    /\ (response'.op = "redirect" /\ response'.user # 0) =>
           (response'.result = "302" <=> Held(links, response'.user, response'.slug))
    /\ (users' # users /\ tasks' = tasks) =>
           /\ users' = users \cup {nextUserId}
           /\ response'.op = "register"
           /\ response'.user = nextUserId
           /\ response'.result = "302"
    /\ (response'.op = "reset" /\ response'.user # 0) => response'.result = "302"
    /\ \A t \in TaskIds :
           (tasks[t].caller.st = "waiting" /\ tasks'[t].caller.st = "returned") =>
               /\ ~tasks'[t].caller.raised
               /\ response'.result = "302"
               /\ users' = users

C26_EnqueueFailureHidden == [][C26_EnqueueStep]_vars

C26_Witness ==
    /\ eager
    /\ response.op = "register"
    /\ response.result = "302"
    /\ \E t \in TaskIds :
          /\ tasks[t].kind = "welcome"
          /\ tasks[t].state = "FAILED_TERMINAL"
          /\ tasks[t].caller.st = "returned"
          /\ tasks[t].caller.log = "ERROR"
          /\ tasks[t].arg \in users
    /\ \E t \in TaskIds :
          /\ tasks[t].kind = "click"
          /\ tasks[t].state = "FAILED_TERMINAL"
          /\ tasks[t].caller.log = "WARNING"

\* C27: on a running worker pool every task that was queued eventually
\* reaches SUCCEEDED or FAILED_TERMINAL, whichever of its executions fail.
C27_EventuallyTerminal ==
    \A t \in 1..MaxTasks :
        (t \in TaskIds) ~> (t \in TaskIds /\ tasks[t].state \in Terminal)

C27_Witness ==
    /\ \E t \in TaskIds : /\ tasks[t].state = "FAILED_TERMINAL"
                           /\ tasks[t].execs = max_attempts
    /\ \E t \in TaskIds : /\ tasks[t].state = "SUCCEEDED"
                           /\ tasks[t].retries >= 1

LinkIds == {l.id : l \in links}

\* C28: every Click row references a Link row that exists, whatever the
\* interleaving of link and account deletions with the executions of
\* record_link_click; an execution that starts its lookup after the link
\* is gone ends the task as SUCCEEDED with no Click row written and no
\* retry scheduled; and no task ever gains a row while its link is gone.
C28_NoDanglingClick == \A c \in clicks : c.link \in LinkIds

C28_DeletedStep ==
    \A t \in TaskIds :
        /\ (/\ tasks[t].kind = "click"
            /\ tasks[t].pc = "lookup"
            /\ tasks[t].arg \notin LinkIds
            /\ tasks'[t] # tasks[t])
           => /\ tasks'[t].state = "SUCCEEDED"
              /\ tasks'[t].retries = tasks[t].retries
              /\ tasks'[t].rows = tasks[t].rows
              /\ clicks' = clicks
        /\ (tasks[t].kind = "click" /\ tasks[t].arg \notin LinkIds)
           => tasks'[t].rows = tasks[t].rows

C28_ClicksFollowLinks == [](C28_NoDanglingClick) /\ [][C28_DeletedStep]_vars

C28_Witness ==
    /\ links = {}
    /\ \E t \in TaskIds : /\ tasks[t].kind = "click"
                           /\ tasks[t].state = "SUCCEEDED"
                           /\ tasks[t].missing
                           /\ tasks[t].execs = 1
                           /\ tasks[t].rows = 0
    /\ \E t \in TaskIds : /\ tasks[t].kind = "click"
                           /\ tasks[t].rows >= 1
                           /\ tasks[t].arg \in deletedLinks

\* C29: a save generates a slug exactly when the submitted slug is empty,
\* on a create and on an update alike; the slug of a request changes only
\* by that generation, from empty to the generated one; and the row a
\* save writes carries the slug of its request, so a non-empty submitted
\* slug is stored as it was submitted.
C29_SaveStep ==
    /\ \A r \in 1..MaxReqs :
           /\ (req[r].pc = "idle" /\ req'[r].pc # "idle") =>
                  /\ req'[r].pc = "gen" <=> req'[r].slug = <<>>
                  /\ req'[r].auto <=> req'[r].slug = <<>>
           /\ (req[r].pc # "idle" /\ req'[r].pc # "idle"
                  /\ req'[r].slug # req[r].slug) =>
                  /\ req[r].pc = "gen"
                  /\ req[r].auto
                  /\ req[r].slug = <<>>
           /\ (req[r].pc # "idle" /\ req'[r].pc # "idle") =>
                  req'[r].auto = req[r].auto
    /\ \A l \in links' \ links :
           \E r \in 1..MaxReqs :
               /\ req[r].pc = "write"
               /\ req'[r].pc = "idle"
               /\ l.slug = req[r].slug
               /\ l.slug # <<>>
               /\ l.gen = req[r].auto

C29_SlugStability == [][C29_SaveStep]_vars

C29_Witness ==
    \E r \in 1..MaxReqs :
        /\ req[r].op = "update"
        /\ req[r].pc = "write"
        /\ req[r].auto
        /\ \E l \in links : /\ l.id = req[r].pk
                             /\ ~l.gen
                             /\ l.slug # req[r].slug
        /\ \E l \in links : /\ l.id # req[r].pk
                             /\ ~l.gen
                             /\ response.result = "updated"

\* The header of the request on the first connection names a first entry.
HeaderPresent == req[1].xff # None /\ req[1].xff # <<>>

\* The value recorded for a candidate address: itself when it is a valid
\* IPv4 or IPv6 address, none otherwise (absent and empty included).
Recorded(ip) ==
    IF ip = None THEN None ELSE IF validate_ipv46_address(ip) THEN ip ELSE None

\* C30: the address queued with a click is the first X-Forwarded-For entry
\* when TRUST_PROXY_HEADERS is on and the header is present, and
\* REMOTE_ADDR otherwise, each recorded as none when it is empty or not a
\* valid address; without trust the queued address is REMOTE_ADDR or none
\* whatever the header says; and the address a Click row stores is the
\* queued one in its canonical form.
C30_AddressStep ==
    /\ (Len(tasks') > Len(tasks)) =>
           LET ip == tasks'[Len(tasks')].payload.ip_address IN
           /\ req[1].pc = "meta"
           /\ (req[1].trust /\ HeaderPresent) => ip = Recorded(Head(req[1].xff))
           /\ ~(req[1].trust /\ HeaderPresent) => ip = Recorded(req[1].remote)
           /\ ~req[1].trust => ip \in {None, req[1].remote}
    /\ \A c \in clicks' \ clicks :
           \E t \in TaskIds :
               /\ c.id[1] = t
               /\ c.ip_address = ip_address_prep(tasks[t].payload.ip_address)

C30_ValidOrNone ==
    /\ \A t \in TaskIds :
           tasks[t].payload.ip_address = Recorded(tasks[t].payload.ip_address)
    /\ \A c \in clicks : c.ip_address = Recorded(c.ip_address)

C30_ClientAddress == [](C30_ValidOrNone) /\ [][C30_AddressStep]_vars

C30_Witness ==
    /\ req[1].pc = "meta"
    /\ ~req[1].trust
    /\ HeaderPresent
    /\ Head(req[1].xff) = IPv4Forwarded
    /\ response.op = "redirect"
    /\ tasks # <<>>
    /\ tasks[Len(tasks)].payload.ip_address = IPv4Sample
    /\ \E c \in clicks : c.ip_address = IPv6Canonical

====
